---- MODULE Spec2Model ----
(***************************************************************************)
(* Model of src/client/datascience/history/completionProvider.ts:          *)
(* the HistoryDocument (virtual document with line index) and the          *)
(* CompletionProvider (message dispatcher, memoized language-client        *)
(* startup, completion requests with cancellation).                        *)
(*                                                                         *)
(* Strings are sequences of one-character strings.  Line numbers and       *)
(* offsets are 0-based as in the source; TLA+ sequences are 1-based, so    *)
(* line i of the source is lines[i + 1] here.                              *)
(***************************************************************************)
EXTENDS Integers, Sequences, FiniteSets, TLC

VARIABLES
    document,             \* CompletionProvider.document / a HistoryDocument
    call,                 \* arguments of the latest addLines / editLines call
    changes,              \* value returned by the latest addLines / editLines
    calls,                \* number of addLines / editLines calls made
    languageClientPromise,\* "undefined" | "pending" | "resolved" | "rejected"
    startupPc,            \* position of startup(): idle/options/start/tempfile/done/failed
    resource,             \* startup's resource argument ("undefined" | "file")
    startCount,           \* number of languageServer.start invocations
    docCount,             \* number of HistoryDocument objects constructed
    languageClient,       \* languageServer.languageClient ("undefined" | "client")
    sentOpenDocument,     \* CompletionProvider.sentOpenDocument
    waiters,              \* handlers suspended on languageClientPromise, in order
    cancellationSources,  \* id -> "absent" | "active" | "cancelled"
    requests,             \* id -> position of handleCompletionItemsRequest
    result,               \* id -> settled outcome of languageClient.sendRequest
    posted,               \* messages fired on postEmitter, in order
    notifications,        \* notifications sent to the language client, in order
    received,             \* number of messages passed to onMessage
    message               \* type (and request id) of the latest message passed to onMessage

docVars  == <<document, call, changes, calls>>
dispVars == <<languageClientPromise, startupPc, resource, startCount, docCount,
              languageClient, sentOpenDocument, waiters, cancellationSources,
              requests, result, posted, notifications, received, message>>
vars     == <<document, call, changes, calls, languageClientPromise, startupPc,
              resource, startCount, docCount, languageClient, sentOpenDocument,
              waiters, cancellationSources, requests, result, posted,
              notifications, received, message>>

(***************************************************************************)
(* Bounds of the model.                                                    *)
(***************************************************************************)
MaxCalls    == 3   \* addLines / editLines calls per behaviour (document level)
MaxCodeLen  == 2   \* length of an appended fragment
MaxTextLen  == 1   \* length of an edit's replacement text
MaxLineNo   == 2   \* 1-based line numbers of an edit range
MaxColumn   == 2   \* 1-based columns of an edit range
MaxRangeLen == 1   \* rangeLength field of an editor change
MaxMessages == 3   \* messages passed to onMessage per behaviour
MaxIds      == 2   \* distinct completion request ids
MaxMsgLen   == 1   \* length of a fragment or replacement text in a message
MaxMsgLine  == 1   \* line numbers of an edit range in a message

NL == "\n"
CR == "\r"
Chars == {"a", NL, CR}

\* The value undefined of an object-typed variable.
Undefined == [undefined |-> TRUE]

Min(a, b) == IF a < b THEN a ELSE b
Max(a, b) == IF a > b THEN a ELSE b

RECURSIVE StringsUpTo(_)
StringsUpTo(n) ==
    IF n = 0 THEN {<< >>}
    ELSE LET shorter == StringsUpTo(n - 1)
         IN  shorter \cup {Append(s, c) : s \in {t \in shorter : Len(t) = n - 1}, c \in Chars}

(***************************************************************************)
(* String primitives used by the source.                                   *)
(***************************************************************************)
\* code.replace(/\r/g, '')
removeCR(s) == SelectSeq(s, LAMBDA c : c # CR)

\* String.prototype.substr(start): a negative start counts from the end.
substrStart(s, start) ==
    IF start < 0 THEN Max(Len(s) + start, 0) ELSE Min(start, Len(s))

substrFrom(s, start) == SubSeq(s, substrStart(s, start) + 1, Len(s))

\* String.prototype.substr(start, length)
substr(s, start, length) ==
    LET b == substrStart(s, start)
        n == Min(Max(length, 0), Len(s) - b)
    IN  SubSeq(s, b + 1, b + n)

\* String.prototype.splitLines({trim: false, removeEmptyEntries: false}):
\* split(/\r?\n/g) without trimming or filtering.
RECURSIVE splitFrom(_, _, _, _)
splitFrom(s, i, cur, acc) ==
    IF i > Len(s) THEN Append(acc, cur)
    ELSE IF s[i] = NL
         THEN LET line == IF Len(cur) > 0 /\ cur[Len(cur)] = CR
                          THEN SubSeq(cur, 1, Len(cur) - 1) ELSE cur
              IN  splitFrom(s, i + 1, << >>, Append(acc, line))
         ELSE splitFrom(s, i + 1, Append(cur, s[i]), acc)

splitLines(s) == splitFrom(s, 1, << >>, << >>)

(***************************************************************************)
(* HistoryLine and HistoryDocument                                         *)
(***************************************************************************)
Position(line, character) == [line |-> line, character |-> character]

\* new HistoryLine(_contents, _line, _offset)
HistoryLine(contents, line, offset) ==
    [text |-> contents, lineNumber |-> line, offset |-> offset]

\* HistoryLine.rangeIncludingLineBreak.end
rangeIncludingLineBreakEnd(l) == Position(l.lineNumber, Len(l.text) + 1)

createTextLine_NoBreak(line, index, prevLine) ==
    HistoryLine(line, index,
                IF prevLine # Undefined THEN prevLine.offset + Len(prevLine.text) ELSE 0)

createTextLine(line, index, prevLine) ==
    HistoryLine(line, index,
                IF prevLine # Undefined
                THEN prevLine.offset + rangeIncludingLineBreakEnd(prevLine).character
                ELSE 0)

RECURSIVE mapLines(_, _, _, _)
mapLines(split, i, prevLine, acc) ==
    IF i > Len(split) THEN acc
    ELSE LET nextLine == createTextLine(split[i], i - 1, prevLine)
         IN  mapLines(split, i + 1, nextLine, Append(acc, nextLine))

createLines(contents) == mapLines(splitLines(contents), 1, Undefined, << >>)

\* The while loop of computePosition.
RECURSIVE computeLine(_, _, _)
computeLine(lines, offset, line) ==
    IF line + 1 < Len(lines) /\ lines[line + 2].offset <= offset
    THEN computeLine(lines, offset, line + 1)
    ELSE line

computePosition_AbsoluteCh(doc, offset) ==
    Position(computeLine(doc.lines, offset, 0), offset)

computePosition(doc, offset) ==
    LET line == computeLine(doc.lines, offset, 0)
        ch   == IF line < Len(doc.lines) THEN offset - doc.lines[line + 1].offset ELSE 0
    IN  Position(line, ch)

convertToOffset(doc, pos) ==
    IF pos.line < Len(doc.lines)
    THEN doc.lines[pos.line + 1].offset + pos.character
    ELSE Len(doc.contents)

\* String.prototype.slice(start, end): a negative index counts from the end.
slice(s, start, end) ==
    LET from == IF start < 0 THEN Max(Len(s) + start, 0) ELSE Min(start, Len(s))
        to   == IF end < 0 THEN Max(Len(s) + end, 0) ELSE Min(end, Len(s))
    IN  SubSeq(s, from + 1, to)

\* before.match(/\n/g): the number of matches, 0 for null.
countNewLines(before) == Cardinality({i \in 1..Len(before) : before[i] = NL})

\* The characters that "." does not match.
IsLineTerminator(c) == c \in {NL, CR}

\* before.match(/(\n|^).*$/g)[0].length, 0 for null.  Without the m flag "^"
\* matches only at index 0 and "$" only at the end of the input, so a match
\* starts at index 0 or at a "\n", runs over no further line terminator and
\* ends at the end; the first match is the leftmost one and it includes the
\* "\n" it starts with.
preCharactersLength(before) ==
    LET restHasNoTerminator(i) ==
            \A k \in (i + 1)..Len(before) : ~IsLineTerminator(before[k])
        starts == {i \in 0..Len(before) :
                      \/ i < Len(before) /\ before[i + 1] = NL /\ restHasNoTerminator(i + 1)
                      \/ i = 0 /\ restHasNoTerminator(0)}
    IN  IF starts = {} THEN 0
        ELSE Len(before) - (CHOOSE i \in starts : \A j \in starts : i <= j)

positionAt(doc, offset) ==
    LET before == slice(doc.contents, 0, offset)
    IN  Position(countNewLines(before), preCharactersLength(before))

createSerializableRange(start, end) ==
    [start |-> [line |-> start.line, character |-> start.character],
     end   |-> [line |-> end.line, character |-> end.character]]

\* new HistoryDocument(fileName): the field initialisers.
NewHistoryDocument ==
    [version |-> 0, lines |-> << >>, contents |-> << >>,
     editOffset |-> 0, firstEdit |-> TRUE]

addLines_ConsumesFlag(doc, code) ==
    LET normalized   == removeCR(code)
        newCode      == IF Len(doc.contents) # 0 THEN <<NL>> \o normalized ELSE normalized
        fromOffset   == IF doc.firstEdit THEN doc.editOffset ELSE doc.editOffset - 1
        before       == substr(doc.contents, 0, fromOffset)
        after        == substrFrom(doc.contents, fromOffset)
        fromPosition == computePosition(doc, fromOffset)
        contents     == before \o newCode \o after
    IN  [doc |-> [doc EXCEPT !.version = doc.version + 1,
                             !.firstEdit = FALSE,
                             !.contents = contents,
                             !.lines = createLines(contents),
                             !.editOffset = doc.editOffset + Len(newCode)],
         changes |-> << [range |-> createSerializableRange(fromPosition, fromPosition),
                         rangeOffset |-> fromOffset,
                         rangeLength |-> 0,
                         text |-> newCode] >>]

addLines_ReportEditOffset(doc, code) ==
    LET normalized   == removeCR(code)
        newCode      == IF Len(doc.contents) # 0 THEN <<NL>> \o normalized ELSE normalized
        fromOffset   == IF doc.firstEdit THEN doc.editOffset ELSE doc.editOffset - 1
        before       == substr(doc.contents, 0, fromOffset)
        after        == substrFrom(doc.contents, fromOffset)
        fromPosition == computePosition(doc, fromOffset)
        contents     == before \o newCode \o after
    IN  [doc |-> [doc EXCEPT !.version = doc.version + 1,
                             !.contents = contents,
                             !.lines = createLines(contents),
                             !.editOffset = doc.editOffset + Len(newCode)],
         changes |-> << [range |-> createSerializableRange(fromPosition, fromPosition),
                         rangeOffset |-> doc.editOffset,
                         rangeLength |-> 0,
                         text |-> newCode] >>]

addLines_NeverPrefix(doc, code) ==
    LET normalized   == removeCR(code)
        newCode      == normalized
        fromOffset   == IF doc.firstEdit THEN doc.editOffset ELSE doc.editOffset - 1
        before       == substr(doc.contents, 0, fromOffset)
        after        == substrFrom(doc.contents, fromOffset)
        fromPosition == computePosition(doc, fromOffset)
        contents     == before \o newCode \o after
    IN  [doc |-> [doc EXCEPT !.version = doc.version + 1,
                             !.contents = contents,
                             !.lines = createLines(contents),
                             !.editOffset = doc.editOffset + Len(newCode)],
         changes |-> << [range |-> createSerializableRange(fromPosition, fromPosition),
                         rangeOffset |-> fromOffset,
                         rangeLength |-> 0,
                         text |-> newCode] >>]

addLines_AlwaysPrefix(doc, code) ==
    LET normalized   == removeCR(code)
        newCode      == <<NL>> \o normalized
        fromOffset   == IF doc.firstEdit THEN doc.editOffset ELSE doc.editOffset - 1
        before       == substr(doc.contents, 0, fromOffset)
        after        == substrFrom(doc.contents, fromOffset)
        fromPosition == computePosition(doc, fromOffset)
        contents     == before \o newCode \o after
    IN  [doc |-> [doc EXCEPT !.version = doc.version + 1,
                             !.contents = contents,
                             !.lines = createLines(contents),
                             !.editOffset = doc.editOffset + Len(newCode)],
         changes |-> << [range |-> createSerializableRange(fromPosition, fromPosition),
                         rangeOffset |-> fromOffset,
                         rangeLength |-> 0,
                         text |-> newCode] >>]

addLines(doc, code) ==
    LET normalized   == removeCR(code)
        newCode      == IF Len(doc.contents) # 0 THEN <<NL>> \o normalized ELSE normalized
        fromOffset   == IF doc.firstEdit THEN doc.editOffset ELSE doc.editOffset - 1
        before       == substr(doc.contents, 0, fromOffset)
        after        == substrFrom(doc.contents, fromOffset)
        fromPosition == computePosition(doc, fromOffset)
        contents     == before \o newCode \o after
    IN  [doc |-> [doc EXCEPT !.version = doc.version + 1,
                             !.contents = contents,
                             !.lines = createLines(contents),
                             !.editOffset = doc.editOffset + Len(newCode)],
         changes |-> << [range |-> createSerializableRange(fromPosition, fromPosition),
                         rangeOffset |-> fromOffset,
                         rangeLength |-> 0,
                         text |-> newCode] >>]

editLinesFirst_AdvanceFull(doc, change) ==
    LET normalized == removeCR(change.text)
        fromOffset == doc.editOffset
        newText    == <<NL>> \o normalized
        contents   == doc.contents \o newText
        after      == [doc EXCEPT !.version = doc.version + 1,
                                  !.firstEdit = FALSE,
                                  !.editOffset = doc.editOffset + Len(newText),
                                  !.contents = contents,
                                  !.lines = createLines(contents)]
    IN  [doc |-> after,
         changes |-> << [range |-> createSerializableRange(
                                      computePosition(after, fromOffset),
                                      computePosition(after, fromOffset + Len(newText))),
                         rangeOffset |-> fromOffset,
                         rangeLength |-> change.rangeLength,
                         text |-> newText] >>]

editLinesFirst_KeepOffset(doc, change) ==
    LET normalized == removeCR(change.text)
        fromOffset == doc.editOffset
        newText    == <<NL>> \o normalized
        contents   == doc.contents \o newText
        after      == [doc EXCEPT !.version = doc.version + 1,
                                  !.firstEdit = FALSE,
                                  !.editOffset = doc.editOffset,
                                  !.contents = contents,
                                  !.lines = createLines(contents)]
    IN  [doc |-> after,
         changes |-> << [range |-> createSerializableRange(
                                      computePosition(after, fromOffset),
                                      computePosition(after, fromOffset + Len(newText))),
                         rangeOffset |-> fromOffset,
                         rangeLength |-> change.rangeLength,
                         text |-> newText] >>]

editLinesFirst_NoPrefix(doc, change) ==
    LET normalized == removeCR(change.text)
        fromOffset == doc.editOffset
        newText    == normalized
        contents   == doc.contents \o newText
        after      == [doc EXCEPT !.version = doc.version + 1,
                                  !.firstEdit = FALSE,
                                  !.editOffset = doc.editOffset + Len(newText),
                                  !.contents = contents,
                                  !.lines = createLines(contents)]
    IN  [doc |-> after,
         changes |-> << [range |-> createSerializableRange(
                                      computePosition(doc, fromOffset),
                                      computePosition(doc, fromOffset)),
                         rangeOffset |-> fromOffset,
                         rangeLength |-> 0,
                         text |-> newText] >>]

\* The first-edit branch of editLines (this._firstEdit is true).
editLinesFirst(doc, change) ==
    LET normalized == removeCR(change.text)
        fromOffset == doc.editOffset
        newText    == <<NL>> \o normalized
        contents   == doc.contents \o newText
        after      == [doc EXCEPT !.version = doc.version + 1,
                                  !.firstEdit = FALSE,
                                  !.editOffset = doc.editOffset + 1,
                                  !.contents = contents,
                                  !.lines = createLines(contents)]
    IN  [doc |-> after,
         changes |-> << [range |-> createSerializableRange(
                                      computePosition(after, fromOffset),
                                      computePosition(after, fromOffset + Len(newText))),
                         rangeOffset |-> fromOffset,
                         rangeLength |-> change.rangeLength,
                         text |-> newText] >>]

editLinesLater_OneBasedColumn(doc, change) ==
    LET normalized == removeCR(change.text)
        editPos    == computePosition(doc, doc.editOffset)
        from       == Position(editPos.line + change.range.startLineNumber - 1,
                               change.range.startColumn)
        to         == Position(editPos.line + change.range.endLineNumber - 1,
                               change.range.endColumn)
        fromOffset == convertToOffset(doc, from)
        toOffset   == convertToOffset(doc, to)
        before     == substr(doc.contents, 0, fromOffset)
        after      == substrFrom(doc.contents, toOffset)
        contents   == before \o normalized \o after
    IN  [doc |-> [doc EXCEPT !.version = doc.version + 1,
                             !.contents = contents,
                             !.lines = createLines(contents)],
         changes |-> << [range |-> createSerializableRange(from, to),
                         rangeOffset |-> fromOffset,
                         rangeLength |-> toOffset - fromOffset,
                         text |-> normalized] >>]

\* The else branch of editLines: offset the editor's range by the edit offset.
editLinesLater(doc, change) ==
    LET normalized == removeCR(change.text)
        editPos    == computePosition(doc, doc.editOffset)
        from       == Position(editPos.line + change.range.startLineNumber - 1,
                               change.range.startColumn - 1)
        to         == Position(editPos.line + change.range.endLineNumber - 1,
                               change.range.endColumn - 1)
        fromOffset == convertToOffset(doc, from)
        toOffset   == convertToOffset(doc, to)
        before     == substr(doc.contents, 0, fromOffset)
        after      == substrFrom(doc.contents, toOffset)
        contents   == before \o normalized \o after
    IN  [doc |-> [doc EXCEPT !.version = doc.version + 1,
                             !.contents = contents,
                             !.lines = createLines(contents)],
         changes |-> << [range |-> createSerializableRange(from, to),
                         rangeOffset |-> fromOffset,
                         rangeLength |-> toOffset - fromOffset,
                         text |-> normalized] >>]

editLines_NoBumpWhenEmpty(doc, editorChanges) ==
    IF Len(editorChanges) # 0
    THEN IF doc.firstEdit
         THEN editLinesFirst(doc, editorChanges[1])
         ELSE editLinesLater(doc, editorChanges[1])
    ELSE [doc |-> doc, changes |-> << >>]

editLines(doc, editorChanges) ==
    IF Len(editorChanges) # 0
    THEN IF doc.firstEdit
         THEN editLinesFirst(doc, editorChanges[1])
         ELSE editLinesLater(doc, editorChanges[1])
    ELSE [doc |-> [doc EXCEPT !.version = doc.version + 1], changes |-> << >>]

convertToDocumentPosition(doc, line, ch) ==
    LET editLine == computePosition(doc, doc.editOffset)
    IN  Position(line - 1 + editLine.line, ch - 1)

(***************************************************************************)
(* Inputs: appended fragments and editor changes                           *)
(* (monacoEditor.editor.IModelContentChange: a 1-based range whose start   *)
(* is not after its end, the replaced length and the replacement text).    *)
(***************************************************************************)
Codes == StringsUpTo(MaxCodeLen)
Texts == StringsUpTo(MaxTextLen)

EditorRanges ==
    {[startLineNumber |-> sl, startColumn |-> sc, endLineNumber |-> el, endColumn |-> ec] :
        sl \in 1..MaxLineNo, sc \in 1..MaxColumn, el \in 1..MaxLineNo, ec \in 1..MaxColumn}

IsOrdered(r) ==
    \/ r.startLineNumber < r.endLineNumber
    \/ r.startLineNumber = r.endLineNumber /\ r.startColumn <= r.endColumn

EditorChanges ==
    {[range |-> r, rangeLength |-> n, text |-> t] :
        r \in {x \in EditorRanges : IsOrdered(x)}, n \in 0..MaxRangeLen, t \in Texts}

\* A second change of a batch; editLines never reads it.
TrailingChange ==
    [range |-> [startLineNumber |-> 1, startColumn |-> 1, endLineNumber |-> 1, endColumn |-> 1],
     rangeLength |-> 0, text |-> <<"a">>]

Batches == {<< >>} \cup {<<c>> : c \in EditorChanges}
                   \cup {<<c, TrailingChange>> : c \in EditorChanges}


(***************************************************************************)
(* CompletionProvider                                                      *)
(***************************************************************************)
Ids == 1..MaxIds

\* Payloads of the messages passed to onMessage.
MsgCodes == StringsUpTo(MaxMsgLen)

MsgChanges ==
    {c \in EditorChanges : /\ Len(c.text) <= MaxMsgLen
                           /\ c.range.endLineNumber <= MaxMsgLine}

MsgBatches == {<< >>} \cup {<<c>> : c \in MsgChanges}

\* request.position of a completions request (1-based, as Monaco gives it).
MsgPositions == {[lineNumber |-> l, column |-> 1] : l \in 1..MaxLineNo}

\* What languageClient.sendRequest(CompletionRequest.type, ...) settles with:
\* null, a bare CompletionItem[], a CompletionList, or a rejection.
ItemLists == {<< >>, <<"A", "B">>}

BackendResults ==
    {[kind |-> "null"]}
    \cup {[kind |-> "array", items |-> xs] : xs \in ItemLists}
    \cup {[kind |-> "list", items |-> xs, isIncomplete |-> b] :
             xs \in ItemLists, b \in BOOLEAN}

Pending == [kind |-> "pending"]

SendRequestOutcomes ==
    {[kind |-> "resolved", value |-> r] : r \in BackendResults}
    \cup {[kind |-> "rejected"]}

EmptyIncomplete == [suggestions |-> << >>, incomplete |-> TRUE]

convertToMonacoCompletionItem(item) == item

\* items.map(this.convertToMonacoCompletionItem)
RECURSIVE mapItems(_, _)
mapItems(items, i) ==
    IF i > Len(items) THEN << >>
    ELSE <<convertToMonacoCompletionItem(items[i])>> \o mapItems(items, i + 1)

convertToMonacoCompletionList_DropFlag(r) ==
    IF r.kind # "null"
    THEN [suggestions |-> mapItems(r.items, 1), incomplete |-> FALSE]
    ELSE EmptyIncomplete

convertToMonacoCompletionList(r) ==
    IF r.kind # "null"
    THEN IF r.kind = "list"
         THEN [suggestions |-> mapItems(r.items, 1), incomplete |-> r.isIncomplete]
         ELSE [suggestions |-> mapItems(r.items, 1), incomplete |-> FALSE]
    ELSE EmptyIncomplete

\* postResponse(HistoryMessages.ProvideCompletionItemsResponse, {list, id})
ProvideCompletionItemsResponse(list, id) ==
    [message |-> "ProvideCompletionItemsResponse", payload |-> [list |-> list, id |-> id]]

\* The .then / .catch of handleCompletionItemsRequest applied to the settled
\* promise of provideCompletionItems: the messages it posts.
postCompletion_ThenOnly(id, settled) ==
    IF settled.kind = "resolved"
    THEN <<ProvideCompletionItemsResponse(settled.value, id)>>
    ELSE << >>

postCompletion(id, settled) ==
    IF settled.kind = "resolved"
    THEN <<ProvideCompletionItemsResponse(settled.value, id)>>
    ELSE <<ProvideCompletionItemsResponse(EmptyIncomplete, id)>>

handleCompletionItemsCancel_Create(sources, id) ==
    [sources EXCEPT ![id] = "cancelled"]

handleCompletionItemsCancel_CancelAll(sources, id) ==
    IF sources[id] # "absent"
    THEN [i \in DOMAIN sources |-> IF sources[i] # "absent" THEN "cancelled" ELSE sources[i]]
    ELSE sources

handleCompletionItemsCancel_Delete(sources, id) ==
    [sources EXCEPT ![id] = "absent"]

\* handleCompletionItemsCancel: cancel and dispose the source, if any.
handleCompletionItemsCancel(sources, id) ==
    IF sources[id] # "absent" THEN [sources EXCEPT ![id] = "cancelled"] ELSE sources

getLanguageClient_RetryAfterFailure(promise, pc, res, file) ==
    IF promise \in {"undefined", "rejected"}
    THEN [promise |-> "pending", pc |-> "options", resource |-> file]
    ELSE [promise |-> promise, pc |-> pc, resource |-> res]

\* getLanguageClient(file): the first call creates the deferred and runs
\* startup(file) up to its first await; every call returns the same promise.
getLanguageClient(promise, pc, res, file) ==
    IF promise = "undefined"
    THEN [promise |-> "pending", pc |-> "options", resource |-> file]
    ELSE [promise |-> promise, pc |-> pc, resource |-> res]

\* HistoryDocument.textDocumentItem / textDocumentId
textDocumentItem(doc) == [version |-> doc.version, text |-> doc.contents]
textDocumentId(doc)   == [version |-> doc.version]

syncNotification_AlwaysOpen(sentOpen, doc, contentChanges) ==
    [type |-> "didOpen", textDocument |-> textDocumentItem(doc)]

\* The open-or-change notification of addCell / editCell.
syncNotification(sentOpen, doc, contentChanges) ==
    IF ~sentOpen
    THEN [type |-> "didOpen", textDocument |-> textDocumentItem(doc)]
    ELSE [type |-> "didChange", textDocument |-> textDocumentId(doc),
          contentChanges |-> contentChanges]

\* No continuation of a settled languageClientPromise is queued: the next
\* thing to run is a new message or an I/O completion.
Idle == languageClientPromise \in {"undefined", "pending"} \/ waiters = << >>

Settled == languageClientPromise \in {"resolved", "rejected"}

Suspend_Front(handler, file) ==
    LET g == getLanguageClient(languageClientPromise, startupPc, resource, file)
    IN  /\ languageClientPromise' = g.promise
        /\ startupPc' = g.pc
        /\ resource' = g.resource
        /\ waiters' = <<handler>> \o waiters

\* A handler calls getLanguageClient(file) and suspends on the promise.
Suspend(handler, file) ==
    LET g == getLanguageClient(languageClientPromise, startupPc, resource, file)
    IN  /\ languageClientPromise' = g.promise
        /\ startupPc' = g.pc
        /\ resource' = g.resource
        /\ waiters' = Append(waiters, handler)

\* onMessage(RemoteAddCode): addCell up to its await.
OnRemoteAddCode ==
    \E code \in MsgCodes, file \in {"undefined", "file"} :
        /\ Idle /\ received < MaxMessages
        /\ received' = received + 1
        /\ message' = [type |-> "RemoteAddCode"]
        /\ Suspend([kind |-> "addCell", code |-> code], file)
        /\ UNCHANGED <<document, call, changes, calls, startCount, docCount,
                       languageClient, sentOpenDocument, cancellationSources,
                       requests, result, posted, notifications>>

\* onMessage(EditCell): editCell up to its await.
OnEditCell ==
    \E batch \in MsgBatches :
        /\ Idle /\ received < MaxMessages
        /\ received' = received + 1
        /\ message' = [type |-> "EditCell"]
        /\ Suspend([kind |-> "editCell", changes |-> batch], "undefined")
        /\ UNCHANGED <<document, call, changes, calls, startCount, docCount,
                       languageClient, sentOpenDocument, cancellationSources,
                       requests, result, posted, notifications>>

\* onMessage(ProvideCompletionItemsRequest): handleCompletionItemsRequest and
\* provideCompletionItems up to its first await.  Ids are unique while in flight.
OnProvideCompletionItemsRequest ==
    \E id \in Ids, position \in MsgPositions :
        /\ Idle /\ received < MaxMessages
        /\ requests[id].pc \in {"none", "done"}
        /\ received' = received + 1
        /\ message' = [type |-> "ProvideCompletionItemsRequest", id |-> id]
        /\ cancellationSources' = [cancellationSources EXCEPT ![id] = "active"]
        /\ requests' = [requests EXCEPT ![id] =
                           [pc |-> "getLanguageClient", position |-> position,
                            count |-> @.count + 1]]
        /\ result' = [result EXCEPT ![id] = Pending]
        /\ Suspend([kind |-> "provideCompletionItems", id |-> id], "undefined")
        /\ UNCHANGED <<document, call, changes, calls, startCount, docCount,
                       languageClient, sentOpenDocument, posted, notifications>>

\* onMessage(CancelCompletionItemsRequest)
OnCancelCompletionItemsRequest ==
    \E id \in Ids :
        /\ Idle /\ received < MaxMessages
        /\ received' = received + 1
        /\ message' = [type |-> "CancelCompletionItemsRequest", id |-> id]
        /\ cancellationSources' = handleCompletionItemsCancel(cancellationSources, id)
        /\ UNCHANGED <<document, call, changes, calls, languageClientPromise,
                       startupPc, resource, startCount, docCount, languageClient,
                       sentOpenDocument, waiters, requests, result, posted,
                       notifications>>

\* startup() or getLanguageClient's catch: the deferred is rejected.
StartupFails ==
    /\ startupPc' = "failed"
    /\ languageClientPromise' = "rejected"
    /\ UNCHANGED <<document, docCount, languageClient, startCount>>

\* The end of startup() and getLanguageClient's then: the document is
\* created and the deferred resolved with languageServer.languageClient.
StartupCompletes ==
    /\ document' = NewHistoryDocument
    /\ docCount' = docCount + 1
    /\ startupPc' = "done"
    /\ languageClientPromise' = "resolved"
    /\ languageClient' = "client"
    /\ UNCHANGED startCount

\* await this.analysisOptions.getAnalysisOptions() settles.
StartupOptions ==
    /\ startupPc = "options"
    /\ \/ /\ startupPc' = "start"
          /\ startCount' = startCount + 1
          /\ UNCHANGED <<document, docCount, languageClient, languageClientPromise>>
       \/ StartupFails
    /\ UNCHANGED <<call, changes, calls, resource, sentOpenDocument, waiters,
                   cancellationSources, requests, result, posted, notifications,
                   received, message>>

\* await this.languageServer.start(resource, options) settles.
StartupStarted ==
    /\ startupPc = "start"
    /\ \/ \E rootPath \in BOOLEAN :
             IF rootPath \/ resource # "undefined"
             THEN StartupCompletes
             ELSE /\ startupPc' = "tempfile"
                  /\ UNCHANGED <<document, docCount, languageClient,
                                 languageClientPromise, startCount>>
       \/ StartupFails
    /\ UNCHANGED <<call, changes, calls, resource, sentOpenDocument, waiters,
                   cancellationSources, requests, result, posted, notifications,
                   received, message>>

\* await this.fileSystem.createTemporaryFile('.py') settles.
StartupTemporaryFile ==
    /\ startupPc = "tempfile"
    /\ StartupCompletes \/ StartupFails
    /\ UNCHANGED <<call, changes, calls, resource, sentOpenDocument, waiters,
                   cancellationSources, requests, result, posted, notifications,
                   received, message>>

\* The rest of addCell / editCell after the await, for a resolved promise.
SyncDocument(r) ==
    /\ document' = r.doc
    /\ changes' = r.changes
    /\ calls' = calls + 1
    /\ IF languageClient # "undefined"
       THEN /\ sentOpenDocument' = TRUE
            /\ notifications' =
                   Append(notifications, syncNotification(sentOpenDocument, r.doc, r.changes))
       ELSE UNCHANGED <<sentOpenDocument, notifications>>

\* addCell resumes from await getLanguageClient(...).
ResumeAddCell ==
    /\ Settled /\ waiters # << >> /\ Head(waiters).kind = "addCell"
    /\ waiters' = Tail(waiters)
    /\ IF languageClientPromise = "resolved"
       THEN /\ SyncDocument(addLines(document, Head(waiters).code))
            /\ call' = [op |-> "addLines", code |-> Head(waiters).code]
       ELSE UNCHANGED <<document, call, changes, calls, sentOpenDocument, notifications>>
    /\ UNCHANGED <<languageClientPromise, startupPc, resource, startCount, docCount,
                   languageClient, cancellationSources, requests, result, posted,
                   received, message>>

\* editCell resumes from await getLanguageClient().
ResumeEditCell ==
    /\ Settled /\ waiters # << >> /\ Head(waiters).kind = "editCell"
    /\ waiters' = Tail(waiters)
    /\ IF languageClientPromise = "resolved"
       THEN /\ SyncDocument(editLines(document, Head(waiters).changes))
            /\ call' = [op |-> "editLines", changes |-> Head(waiters).changes]
       ELSE UNCHANGED <<document, call, changes, calls, sentOpenDocument, notifications>>
    /\ UNCHANGED <<languageClientPromise, startupPc, resource, startCount, docCount,
                   languageClient, cancellationSources, requests, result, posted,
                   received, message>>

\* provideCompletionItems resumes from await getLanguageClient(): a rejected
\* promise rejects it (the .catch posts the empty list); otherwise it translates
\* the position and awaits languageClient.sendRequest.
ResumeProvideCompletionItems ==
    /\ Settled /\ waiters # << >> /\ Head(waiters).kind = "provideCompletionItems"
    /\ waiters' = Tail(waiters)
    /\ LET id == Head(waiters).id
       IN  IF languageClientPromise = "rejected"
           THEN /\ posted' = posted \o postCompletion(id, [kind |-> "rejected"])
                /\ requests' = [requests EXCEPT ![id].pc = "done"]
           ELSE IF languageClient # "undefined" /\ document # Undefined
           THEN /\ requests' = [requests EXCEPT
                       ![id].pc = "sendRequest",
                       ![id].position = convertToDocumentPosition(
                            document, @.lineNumber, @.column)]
                /\ UNCHANGED posted
           ELSE /\ posted' = posted \o
                       postCompletion(id, [kind |-> "resolved", value |-> EmptyIncomplete])
                /\ requests' = [requests EXCEPT ![id].pc = "done"]
    /\ UNCHANGED <<document, call, changes, calls, languageClientPromise, startupPc,
                   resource, startCount, docCount, languageClient, sentOpenDocument,
                   cancellationSources, result, notifications, received,
                   message>>

\* languageClient.sendRequest settles; provideCompletionItems converts the
\* result and the .then / .catch of handleCompletionItemsRequest posts it.
SendRequestSettles ==
    \E id \in Ids, outcome \in SendRequestOutcomes :
        /\ Idle
        /\ requests[id].pc = "sendRequest"
        /\ result' = [result EXCEPT ![id] = outcome]
        /\ requests' = [requests EXCEPT ![id].pc = "done"]
        /\ posted' = posted \o postCompletion(id,
               IF outcome.kind = "resolved"
               THEN [kind |-> "resolved",
                     value |-> convertToMonacoCompletionList(outcome.value)]
               ELSE [kind |-> "rejected"])
        /\ UNCHANGED <<document, call, changes, calls, languageClientPromise,
                       startupPc, resource, startCount, docCount, languageClient,
                       sentOpenDocument, waiters, cancellationSources, notifications,
                       received, message>>

(***************************************************************************)
(* Document-level specification: a HistoryDocument driven directly by      *)
(* addLines / editLines calls.                                             *)
(***************************************************************************)
NoCall == [op |-> "none"]

DispInit ==
    /\ languageClientPromise = "undefined"
    /\ startupPc = "idle"
    /\ resource = "undefined"
    /\ startCount = 0
    /\ docCount = 0
    /\ languageClient = "undefined"
    /\ sentOpenDocument = FALSE
    /\ waiters = << >>
    /\ cancellationSources = [id \in Ids |-> "absent"]
    /\ requests = [id \in Ids |-> [pc |-> "none", position |-> Undefined, count |-> 0]]
    /\ result = [id \in Ids |-> Pending]
    /\ posted = << >>
    /\ notifications = << >>
    /\ received = 0
    /\ message = [type |-> "none"]

DocInit ==
    /\ document = NewHistoryDocument
    /\ call = NoCall
    /\ changes = << >>
    /\ calls = 0
    /\ DispInit

DocAddLines ==
    \E code \in Codes :
        /\ calls < MaxCalls
        /\ LET r == addLines(document, code)
           IN  /\ document' = r.doc
               /\ changes' = r.changes
        /\ call' = [op |-> "addLines", code |-> code]
        /\ calls' = calls + 1
        /\ UNCHANGED dispVars

DocEditLines ==
    \E batch \in Batches :
        /\ calls < MaxCalls
        /\ LET r == editLines(document, batch)
           IN  /\ document' = r.doc
               /\ changes' = r.changes
        /\ call' = [op |-> "editLines", changes |-> batch]
        /\ calls' = calls + 1
        /\ UNCHANGED dispVars

DocNext == DocAddLines \/ DocEditLines

DocSpec == DocInit /\ [][DocNext]_vars

(***************************************************************************)
(* The CompletionProvider after construction, driven by onMessage.         *)
(***************************************************************************)
Init ==
    /\ document = Undefined
    /\ call = NoCall
    /\ changes = << >>
    /\ calls = 0
    /\ DispInit

Next ==
    \/ OnRemoteAddCode
    \/ OnEditCell
    \/ OnProvideCompletionItemsRequest
    \/ OnCancelCompletionItemsRequest
    \/ StartupOptions
    \/ StartupStarted
    \/ StartupTemporaryFile
    \/ ResumeAddCell
    \/ ResumeEditCell
    \/ ResumeProvideCompletionItems
    \/ SendRequestSettles

Spec == Init /\ [][Next]_vars

(***************************************************************************)
(* Properties of the document.                                             *)
(***************************************************************************)
RECURSIVE joinTexts(_, _)
joinTexts(lines, i) ==
    IF i > Len(lines) THEN << >>
    ELSE IF i = Len(lines) THEN lines[i].text
    ELSE lines[i].text \o <<NL>> \o joinTexts(lines, i + 1)

\* C1: in every reachable document state the line index agrees with the
\* content: the line texts joined with "\n" give the content, line 0 (if
\* any) starts at offset 0, and each next line starts at the previous
\* line's offset plus its text length plus 1.
LineIndexConsistent ==
    LET lines == document.lines
    IN  /\ joinTexts(lines, 1) = document.contents
        /\ Len(lines) > 0 => lines[1].offset = 0
        /\ \A i \in 1..(Len(lines) - 1) :
               lines[i + 1].offset = lines[i].offset + Len(lines[i].text) + 1

LineIndexWitness ==
    /\ Len(document.lines) >= 3
    /\ ~document.firstEdit
    /\ call.op = "editLines"
    /\ \E i \in 1..Len(document.lines) : Len(document.lines[i].text) > 0

\* C2: for every offset o with 0 <= o <= length(content), computePosition
\* followed by convertToOffset returns o.
OffsetPositionRoundTrip ==
    \A o \in 0..Len(document.contents) :
        convertToOffset(document, computePosition(document, o)) = o

RoundTripWitness ==
    /\ Len(document.lines) >= 2
    /\ Len(document.contents) >= 3
    /\ document.version >= 2
    /\ computePosition(document, Len(document.contents)).line >= 1

\* C8 as claimed: a call increments the version by exactly 1 unless it
\* changes nothing (an edit with an empty batch), which leaves it unchanged.
VersionCountsMutations ==
    [][IF call'.op = "editLines" /\ Len(call'.changes) = 0
       THEN document'.version = document.version
       ELSE document'.version = document.version + 1]_vars

\* C8 amended: the version starts at 0 and equals the number of addLines
\* and editLines calls made, an edit with an empty batch included.
VersionCountsCalls == document.version = calls

VersionWitness ==
    /\ call.op = "editLines"
    /\ Len(call.changes) = 0
    /\ document.version >= 2
    /\ Len(document.contents) > 0

IsPristine(doc) == [doc EXCEPT !.version = 0] = NewHistoryDocument

InsertionAt(offset, line, character, text) ==
    << [range |-> [start |-> [line |-> line, character |-> character],
                   end   |-> [line |-> line, character |-> character]],
        rangeOffset |-> offset,
        rangeLength |-> 0,
        text |-> text] >>

\* C9: when the first mutation of a new document is an append of t, the
\* content becomes t without "\r" (no leading separator) and the one change
\* record is an insertion of that text at offset 0, position (0,0), with
\* rangeLength 0.
FirstAppendVerbatim ==
    [][(IsPristine(document) /\ call'.op = "addLines")
        => /\ document'.contents = removeCR(call'.code)
           /\ changes' = InsertionAt(0, 0, 0, removeCR(call'.code))]_vars

FirstAppendWitness ==
    /\ calls = 1
    /\ call.op = "addLines"
    /\ Len(call.code) = 2
    /\ Len(document.contents) = 1
    /\ Len(changes) = 1

\* C10 as claimed: with only appends so far, an append of b that is not the
\* first one turns content a into a + "\n" + b and returns one record with
\* rangeLength 0, rangeOffset = length(a) and text "\n" + b, whatever the
\* earlier fragments were (an empty first fragment included).
LaterAppendPrefixed ==
    [][(call.op = "addLines" /\ document.firstEdit /\ call'.op = "addLines")
        => /\ document'.contents = document.contents \o <<NL>> \o removeCR(call'.code)
           /\ Len(changes') = 1
           /\ changes'[1].rangeLength = 0
           /\ changes'[1].rangeOffset = Len(document.contents)
           /\ changes'[1].text = <<NL>> \o removeCR(call'.code)]_vars

\* C10 amended: an append onto non-empty content returns one record with
\* rangeLength 0 and text "\n" + b; with only appends so far it turns content
\* a into a + "\n" + b with rangeOffset = length(a).  An append onto content
\* that is still empty (every earlier fragment was empty) adds no separator.
NonEmptyAppendPrefixed ==
    [][(call'.op = "addLines")
        => IF Len(document.contents) > 0
           THEN /\ Len(changes') = 1
                /\ changes'[1].rangeLength = 0
                /\ changes'[1].text = <<NL>> \o removeCR(call'.code)
                /\ document.firstEdit
                     => /\ document'.contents =
                              document.contents \o <<NL>> \o removeCR(call'.code)
                        /\ changes'[1].rangeOffset = Len(document.contents)
           ELSE /\ document'.contents = removeCR(call'.code)
                /\ changes'[1].text = removeCR(call'.code)]_vars

LaterAppendWitness ==
    /\ calls >= 2
    /\ call.op = "addLines"
    /\ document.firstEdit
    /\ Len(call.code) > 0
    /\ Len(changes) = 1
    /\ changes[1].rangeOffset > 0
    /\ changes[1].text = <<NL>> \o removeCR(call.code)
    /\ Len(document.contents) = changes[1].rangeOffset + Len(changes[1].text)

(***************************************************************************)
(* Properties of the CompletionProvider.                                   *)
(***************************************************************************)
\* Replace rangeLength characters at rangeOffset of text by the record's text.
applyChange(text, c) ==
    SubSeq(text, 1, Min(Max(c.rangeOffset, 0), Len(text)))
    \o c.text
    \o SubSeq(text, Min(Max(c.rangeOffset + c.rangeLength, 0), Len(text)) + 1, Len(text))

RECURSIVE applyChanges(_, _, _)
applyChanges(text, cs, i) ==
    IF i > Len(cs) THEN text ELSE applyChanges(applyChange(text, cs[i]), cs, i + 1)

\* The backend's copy of the document after the first n notifications.
RECURSIVE backendText(_, _)
backendText(ns, n) ==
    IF n = 0 THEN << >>
    ELSE IF ns[n].type = "didOpen" THEN ns[n].textDocument.text
    ELSE applyChanges(backendText(ns, n - 1), ns[n].contentChanges, 1)

\* C3: after every notification sent to the backend, the backend's copy (the
\* open notification's text with the records of every later change
\* notification applied by rangeOffset / rangeLength / text) equals the
\* document's content.
BackendInSync ==
    notifications # << >>
        => /\ document # Undefined
           /\ notifications[1].type = "didOpen"
           /\ backendText(notifications, Len(notifications)) = document.contents

BackendInSyncWitness ==
    /\ Len(notifications) >= 3
    /\ notifications[2].type = "didChange"
    /\ notifications[3].type = "didChange"
    /\ Len(notifications[3].contentChanges) = 1
    /\ notifications[3].contentChanges[1].rangeLength > 0
    /\ Len(document.contents) >= 2

PendingPcs == {"getLanguageClient", "sendRequest"}

countPosted(id) == Cardinality({i \in 1..Len(posted) : posted[i].payload.id = id})

lastPosted(id) ==
    posted[CHOOSE i \in 1..Len(posted) :
               /\ posted[i].payload.id = id
               /\ \A j \in (i + 1)..Len(posted) : posted[j].payload.id # id]

\* The fixed shape of a backend result.
normalizedResult(r) ==
    CASE r.kind = "null"  -> [suggestions |-> << >>, incomplete |-> TRUE]
      [] r.kind = "array" -> [suggestions |-> r.items, incomplete |-> FALSE]
      [] r.kind = "list"  -> [suggestions |-> r.items, incomplete |-> r.isIncomplete]

expectedList(id) ==
    IF languageClientPromise = "resolved" /\ result[id].kind = "resolved"
    THEN normalizedResult(result[id].value)
    ELSE [suggestions |-> << >>, incomplete |-> TRUE]

\* C4: every completions request whose initialization and backend call have
\* settled has exactly one response carrying its id (none while it is
\* pending, never more than one): the normalized backend result if the call
\* succeeded, the empty list with incomplete = true if initialization or the
\* call failed.  Nothing else is ever posted, so append, edit and cancel
\* messages emit nothing.
ExactlyOneResponse ==
    /\ \A i \in 1..Len(posted) :
           /\ posted[i].message = "ProvideCompletionItemsResponse"
           /\ posted[i].payload.id \in Ids
    /\ \A id \in Ids :
           /\ countPosted(id) = requests[id].count
                                  - (IF requests[id].pc \in PendingPcs THEN 1 ELSE 0)
           /\ requests[id].pc = "done" => lastPosted(id).payload.list = expectedList(id)

ExactlyOneResponseWitness ==
    \E id \in Ids :
        /\ requests[id].pc = "done"
        /\ result[id].kind = "rejected"
        /\ languageClientPromise = "resolved"
        /\ countPosted(id) = 1
        /\ calls >= 1

\* C5 as claimed: when a request that was cancelled while pending gets its
\* response, the response is the empty list with incomplete = true, whatever
\* the backend returned.
CancelledYieldsEmpty ==
    [][\A id \in Ids :
          (/\ cancellationSources[id] = "cancelled"
           /\ requests[id].pc \in PendingPcs
           /\ requests'[id].pc = "done")
          => posted' = Append(posted, ProvideCompletionItemsResponse(EmptyIncomplete, id))]_vars

\* C6: the backend start is invoked at most once and at most one document is
\* created; handlers run only after the single attempt has settled and see
\* its outcome; once settled the outcome never changes and no further start
\* is attempted.
MemoizedInitState ==
    /\ startCount <= 1
    /\ docCount <= 1
    /\ languageClientPromise \in {"undefined", "pending"}
          => /\ calls = 0 /\ posted = << >> /\ notifications = << >>
             /\ document = Undefined
             /\ \A id \in Ids : requests[id].pc \in {"none", "getLanguageClient"}
    /\ languageClientPromise = "rejected"
          => /\ startupPc = "failed" /\ docCount = 0 /\ document = Undefined
             /\ calls = 0 /\ notifications = << >>
             /\ \A i \in 1..Len(posted) : posted[i].payload.list = EmptyIncomplete
             /\ \A id \in Ids : requests[id].pc # "sendRequest"
    /\ languageClientPromise = "resolved"
          => /\ startupPc = "done" /\ startCount = 1 /\ docCount = 1
             /\ document # Undefined
             /\ calls = Len(notifications)

MemoizedInit ==
    /\ []MemoizedInitState
    /\ [][Settled => /\ languageClientPromise' = languageClientPromise
                     /\ startCount' = startCount
                     /\ docCount' = docCount
                     /\ startupPc' = startupPc]_vars

MemoizedInitWitness ==
    /\ languageClientPromise = "rejected"
    /\ startCount = 1
    /\ received >= 3
    /\ waiters = << >>
    /\ Len(posted) >= 1

\* C7 as claimed: the table holds an entry for an id only while a request
\* with that id is unresolved and not cancelled.
EntriesOnlyWhilePending ==
    \A id \in Ids :
        cancellationSources[id] # "absent"
            => /\ requests[id].pc \in PendingPcs
               /\ cancellationSources[id] = "active"

\* C7 amended: no entry for an id exists before the first request with that
\* id, and from then on the entry stays in the table: neither the response
\* nor a cancel removes it (a cancel only leaves it cancelled and disposed).
EntriesNeverRemoved ==
    \A id \in Ids :
        /\ (cancellationSources[id] = "absent") <=> (requests[id].count = 0)
        /\ requests[id].pc \in PendingPcs => cancellationSources[id] # "absent"

EntriesNeverRemovedWitness ==
    \E id \in Ids, other \in Ids :
        /\ requests[id].pc = "done"
        /\ cancellationSources[id] = "cancelled"
        /\ countPosted(id) = 1
        /\ requests[other].pc = "done"
        /\ cancellationSources[other] = "active"

(***************************************************************************)
(* Further properties of the document.                                     *)
(***************************************************************************)
\* C11 as claimed: on a never-mutated document a first range edit with
\* text t leaves the document and returns the change records that an append
\* of t would.
FirstEditLikeAppend ==
    [][(IsPristine(document) /\ call'.op = "editLines" /\ Len(call'.changes) > 0)
        => LET a == addLines(document, call'.changes[1].text)
           IN  /\ document'.contents = a.doc.contents
               /\ document'.editOffset = a.doc.editOffset
               /\ document'.version = a.doc.version
               /\ Len(changes') = 1
               /\ changes'[1].rangeOffset = a.changes[1].rangeOffset
               /\ changes'[1].rangeLength = a.changes[1].rangeLength
               /\ changes'[1].text = a.changes[1].text]_vars

\* C11 amended: on a never-mutated document a first range edit with text t
\* agrees with an append of t on the version and on the record's offset (0),
\* but not on the rest: its content and its record's text are the append's
\* with one "\n" in front, its base offset is 1 instead of the length of the
\* text, and its record carries the editor's rangeLength instead of 0.
FirstEditPrefixesAppend ==
    [][(IsPristine(document) /\ call'.op = "editLines" /\ Len(call'.changes) > 0)
        => LET a == addLines(document, call'.changes[1].text)
           IN  /\ document'.version = a.doc.version
               /\ document'.contents = <<NL>> \o a.doc.contents
               /\ document'.editOffset = 1
               /\ a.doc.editOffset = Len(a.doc.contents)
               /\ Len(changes') = 1
               /\ changes'[1].rangeOffset = a.changes[1].rangeOffset
               /\ changes'[1].rangeOffset = 0
               /\ changes'[1].text = <<NL>> \o a.changes[1].text
               /\ changes'[1].rangeLength = call'.changes[1].rangeLength
               /\ a.changes[1].rangeLength = 0]_vars

FirstEditWitness ==
    /\ calls = 1
    /\ call.op = "editLines"
    /\ Len(call.changes) > 0
    /\ call.changes[1].text = <<"a">>
    /\ call.changes[1].rangeLength = 1
    /\ document.contents = <<NL, "a">>

\* A call that reaches the body of editLines' if: a non-empty batch.
IsEdit(c) == c.op = "editLines" /\ Len(c.changes) > 0

\* C16 as claimed: after any append and after any edit the first-edit flag is
\* false, and once false it stays false.
FlagConsumedByAnyMutation ==
    /\ []((call.op = "addLines" \/ IsEdit(call)) => ~document.firstEdit)
    /\ [][~document.firstEdit => ~document'.firstEdit]_vars

\* C16 amended: only an edit with a non-empty batch consumes the first-edit
\* flag; an append (like an edit with an empty batch) leaves the flag as it
\* was, so the flag is still set after any number of appends and the first
\* edit that follows them takes the first-edit branch ("\n" + text at the
\* end of the content, base offset + 1). Once false the flag stays false.
FlagConsumedByEditOnly ==
    /\ []((document.version = 0 \/ (call.op = "addLines" /\ calls = 1)) => document.firstEdit)
    /\ [][/\ (call'.op = "addLines" => document'.firstEdit = document.firstEdit)
          /\ (IsEdit(call') => ~document'.firstEdit)
          /\ ((call'.op = "editLines" /\ ~IsEdit(call'))
                 => document'.firstEdit = document.firstEdit)
          /\ (~document.firstEdit => ~document'.firstEdit)
          /\ ((call.op = "addLines" /\ document.firstEdit /\ IsEdit(call'))
                 => /\ Len(changes') = 1
                    /\ changes'[1].text = <<NL>> \o removeCR(call'.changes[1].text)
                    /\ document'.contents = document.contents \o changes'[1].text
                    /\ document'.editOffset = document.editOffset + 1)]_vars

FlagWitness ==
    /\ calls = 2
    /\ IsEdit(call)
    /\ ~document.firstEdit
    /\ document.editOffset = 3
    /\ document.contents[3] = NL

\* C17 as claimed: an edit taking the first-edit branch with text t appends
\* "\n" + t at the end of the content and advances the base offset by
\* length(t) + 1.
FirstBranchAdvancesFull ==
    [][(document.firstEdit /\ IsEdit(call'))
        => LET t == removeCR(call'.changes[1].text)
           IN  /\ document'.contents = document.contents \o <<NL>> \o t
               /\ document'.editOffset = document.editOffset + Len(t) + 1]_vars

\* C17 amended: an edit taking the first-edit branch with text t appends
\* "\n" + t at the end of the content and advances the base offset by
\* exactly 1, whatever the length of t: the base offset ends just after the
\* separator, at the start of the appended text.
FirstBranchAdvancesOne ==
    [][(document.firstEdit /\ IsEdit(call'))
        => LET t == removeCR(call'.changes[1].text)
           IN  /\ document'.contents = document.contents \o <<NL>> \o t
               /\ document'.editOffset = document.editOffset + 1
               /\ SubSeq(document'.contents, document'.editOffset + 1,
                         Len(document'.contents)) = t]_vars

FirstBranchWitness ==
    /\ calls = 2
    /\ IsEdit(call)
    /\ call.changes[1].text = <<"a">>
    /\ document.contents = <<"a", NL, "a">>
    /\ document.editOffset = 2

\* The absolute offsets of the translated ends of an editor range.
SpanStart(doc, r) ==
    convertToOffset(doc, Position(computePosition(doc, doc.editOffset).line
                                      + r.startLineNumber - 1, r.startColumn - 1))

SpanEnd(doc, r) ==
    convertToOffset(doc, Position(computePosition(doc, doc.editOffset).line
                                      + r.endLineNumber - 1, r.endColumn - 1))

\* C18 as claimed: an edit taking the later branch replaces exactly the span
\* between the two translated offsets and nothing else, leaves the base
\* offset alone, and returns one record with rangeOffset = span start,
\* rangeLength = span length and text = t without "\r"; only the first
\* change of the batch is used.
LaterEditReplacesSpan ==
    [][(~document.firstEdit /\ IsEdit(call'))
        => LET c    == call'.changes[1]
               from == SpanStart(document, c.range)
               to   == SpanEnd(document, c.range)
               lo   == Min(from, to)
               hi   == Max(from, to)
           IN  /\ document'.contents = substr(document.contents, 0, lo)
                                           \o removeCR(c.text)
                                           \o substrFrom(document.contents, hi)
               /\ document'.editOffset = document.editOffset
               /\ Len(changes') = 1
               /\ changes'[1].rangeOffset = lo
               /\ changes'[1].rangeLength = hi - lo
               /\ changes'[1].text = removeCR(c.text)]_vars

\* C18 amended: an edit taking the later branch, with translated offsets
\* from (start) and to (end), makes the content the old content before from,
\* then t without "\r", then the old content from to on; it leaves the base
\* offset and the flag alone and returns one record with rangeOffset = from,
\* rangeLength = to - from and that text, using only the first change of the
\* batch. This replaces exactly the span [from, to) when from <= to; when a
\* start column past the end of its line makes from > to, the characters of
\* [to, from) are kept twice and rangeLength is negative.
LaterEditSplicesAtOffsets ==
    [][(~document.firstEdit /\ IsEdit(call'))
        => LET c    == call'.changes[1]
               from == SpanStart(document, c.range)
               to   == SpanEnd(document, c.range)
               old  == document.contents
               t    == removeCR(c.text)
           IN  /\ document'.contents = substr(old, 0, from) \o t \o substrFrom(old, to)
               /\ document'.editOffset = document.editOffset
               /\ ~document'.firstEdit
               /\ Len(changes') = 1
               /\ changes'[1].rangeOffset = from
               /\ changes'[1].rangeLength = to - from
               /\ changes'[1].text = t
               /\ from <= to
                     => /\ \A i \in 1..Min(from, Len(old)) : document'.contents[i] = old[i]
                        /\ \A i \in (to + 1)..Len(old) :
                               document'.contents[i - (to - from) + Len(t)] = old[i]
                        /\ Len(document'.contents)
                               = Min(from, Len(old)) + Len(t) + Max(Len(old) - to, 0)
               /\ from > to => Len(document'.contents) > Len(old) + Len(t)
                               \/ from > Len(old)]_vars

LaterEditWitness ==
    /\ calls = 2
    /\ call.op = "editLines"
    /\ Len(call.changes) = 2
    /\ ~document.firstEdit
    /\ document.contents = <<NL>>
    /\ Len(changes) = 1
    /\ changes[1].rangeOffset = 1
    /\ changes[1].rangeLength = 1

\* C20: the base offset lies within the content, and once the first-edit
\* flag has been consumed the base offset is at least 1 and the character
\* just before it is "\n" (so the split offset of a later append is not
\* negative).
EditOffsetAtLineStart ==
    /\ 0 <= document.editOffset
    /\ document.editOffset <= Len(document.contents)
    /\ ~document.firstEdit
          => /\ document.editOffset >= 1
             /\ document.contents[document.editOffset] = NL

EditOffsetWitness ==
    /\ calls = 3
    /\ call.op = "addLines"
    /\ ~document.firstEdit
    /\ document.editOffset >= 3
    /\ Len(document.contents) > document.editOffset

(***************************************************************************)
(* Further properties of the CompletionProvider.                           *)
(***************************************************************************)
\* C12: the first notification sent is the one open notification and it
\* carries the document's full content at that moment; every later mutation
\* sends one change notification carrying exactly the records that mutation
\* returned; nothing else is ever sent, so no change notification precedes
\* the open notification and no second open notification follows it.
OpenThenChanges ==
    /\ [](/\ Len(notifications) = calls
          /\ sentOpenDocument <=> notifications # << >>
          /\ \A i \in 1..Len(notifications) :
                 (notifications[i].type = "didOpen") <=> (i = 1))
    /\ [][IF calls' = calls + 1
          THEN notifications' = Append(notifications,
                   IF notifications = << >>
                   THEN [type |-> "didOpen",
                         textDocument |-> [version |-> document'.version,
                                           text |-> document'.contents]]
                   ELSE [type |-> "didChange",
                         textDocument |-> [version |-> document'.version],
                         contentChanges |-> changes'])
          ELSE notifications' = notifications]_vars

OpenThenChangesWitness ==
    /\ Len(notifications) = 3
    /\ notifications[1].type = "didOpen"
    /\ notifications[1].textDocument.text # << >>
    /\ notifications[2].type = "didChange"
    /\ notifications[2].contentChanges = << >>
    /\ notifications[3].type = "didChange"
    /\ notifications[3].contentChanges = changes
    /\ Len(changes) = 1

\* The state a cancel message may touch, and the rest.
exceptSources == <<document, call, changes, calls, languageClientPromise, startupPc,
                   resource, startCount, docCount, languageClient, sentOpenDocument,
                   waiters, requests, result, posted, notifications>>

IsCancelOf(id) ==
    /\ received' = received + 1
    /\ message' = [type |-> "CancelCompletionItemsRequest", id |-> id]

\* C13: a cancel message for an id that has no entry in the table changes
\* nothing and emits nothing; a cancel for an id whose entry is already
\* cancelled changes nothing either; a cancel never posts a response, sends
\* a notification or touches a request.
CancelIdempotent ==
    [][\A id \in Ids :
          IsCancelOf(id)
              => /\ UNCHANGED exceptSources
                 /\ cancellationSources[id] \in {"absent", "cancelled"}
                        => cancellationSources' = cancellationSources
                 /\ cancellationSources'[id] \in {"absent", "cancelled"}
                 /\ cancellationSources'[id] = "absent"
                        <=> cancellationSources[id] = "absent"]_vars

\* Three messages, none an append or an edit and one a request: the other
\* two are cancels, the last of them for the requested id.
CancelIdempotentWitness ==
    \E id \in Ids :
        /\ message = [type |-> "CancelCompletionItemsRequest", id |-> id]
        /\ received = 3
        /\ languageClientPromise = "resolved"
        /\ waiters = << >>
        /\ calls = 0
        /\ \A other \in Ids \ {id} : requests[other].count = 0
        /\ requests[id].count = 1
        /\ requests[id].pc = "done"
        /\ cancellationSources[id] = "cancelled"
        /\ countPosted(id) = 1

\* C14: a cancel message for id x leaves the handle, the request, the backend
\* result and the responses of every other id y alone; and a request y whose
\* handle was never signalled, finished with another id cancelled, has as its
\* response the fixed shape of what the backend returned for y.
DistinctIdsIsolated ==
    /\ [][\A x \in Ids :
             IsCancelOf(x)
                 => \A y \in Ids \ {x} :
                        /\ cancellationSources'[y] = cancellationSources[y]
                        /\ requests'[y] = requests[y]
                        /\ result'[y] = result[y]
                        /\ countPosted(y)' = countPosted(y)]_vars
    /\ [][\A y \in Ids :
             (cancellationSources[y] = "active" /\ cancellationSources'[y] = "cancelled")
                 => IsCancelOf(y)]_vars
    /\ [](\A x \in Ids, y \in Ids :
             (/\ x # y
              /\ cancellationSources[x] = "cancelled"
              /\ cancellationSources[y] = "active"
              /\ requests[y].pc = "done")
                 => /\ countPosted(y) = requests[y].count
                    /\ lastPosted(y).payload.id = y
                    /\ lastPosted(y).payload.list = expectedList(y))

DistinctIdsWitness ==
    \E x \in Ids, y \in Ids :
        /\ x # y
        /\ received = 3
        /\ cancellationSources[x] = "cancelled"
        /\ cancellationSources[y] = "active"
        /\ requests[x].pc = "done" /\ requests[y].pc = "done"
        /\ result[x].kind = "resolved" /\ result[y].kind = "resolved"
        /\ result[y].value.kind = "array"
        /\ result[y].value.items = <<"A", "B">>
        /\ posted[Len(posted)].payload.id = x

\* C15: the list posted for a request whose backend call succeeded is, for a
\* bare item list, that list unchanged with incomplete = false; for a wrapper
\* with isIncomplete, the wrapper's items unchanged with the wrapper's flag;
\* for null, no items with incomplete = true.
ResultNormalized ==
    \A id \in Ids :
        (requests[id].pc = "done" /\ result[id].kind = "resolved")
            => LET r == result[id].value
                   l == lastPosted(id).payload.list
               IN  /\ DOMAIN l = {"suggestions", "incomplete"}
                   /\ r.kind = "array"
                        => l.suggestions = r.items /\ l.incomplete = FALSE
                   /\ r.kind = "list"
                        => l.suggestions = r.items /\ l.incomplete = r.isIncomplete
                   /\ r.kind = "null"
                        => l.suggestions = << >> /\ l.incomplete = TRUE

ResultNormalizedWitness ==
    \E id \in Ids :
        /\ requests[id].pc = "done"
        /\ result[id].kind = "resolved"
        /\ result[id].value.kind = "list"
        /\ result[id].value.isIncomplete
        /\ result[id].value.items = <<"A", "B">>
        /\ lastPosted(id).payload.list.suggestions = <<"A", "B">>

IsMutation(h) == h.kind \in {"addCell", "editCell"}

\* C19: handlers are queued in the arrival order of their messages (a new
\* one goes to the end, nothing is reordered) and resumed from the front,
\* one at a time; a resumed append / edit handler applies its own mutation
\* to the document and sends its notification in the same step.  So the
\* mutations and notifications follow the arrival order, and the versions
\* of successive notifications are strictly increasing.
ArrivalOrderKept ==
    /\ [][/\ received' = received + 1 /\ message'.type \in {"RemoteAddCode", "EditCell"}
             => /\ Len(waiters') = Len(waiters) + 1
                /\ SubSeq(waiters', 1, Len(waiters)) = waiters
                /\ waiters'[Len(waiters')].kind
                       = (IF message'.type = "RemoteAddCode" THEN "addCell" ELSE "editCell")
          /\ received' = received
             => \/ waiters' = waiters /\ calls' = calls
                \/ /\ waiters # << >> /\ waiters' = Tail(waiters)
                   /\ IF IsMutation(Head(waiters)) /\ languageClientPromise = "resolved"
                      THEN /\ calls' = calls + 1
                           /\ Len(notifications') = Len(notifications) + 1
                           /\ notifications'[Len(notifications')].textDocument.version
                                  = document'.version
                           /\ IF Head(waiters).kind = "addCell"
                              THEN /\ call' = [op |-> "addLines", code |-> Head(waiters).code]
                                   /\ document' = addLines(document, Head(waiters).code).doc
                              ELSE /\ call' = [op |-> "editLines",
                                               changes |-> Head(waiters).changes]
                                   /\ document' = editLines(document, Head(waiters).changes).doc
                      ELSE calls' = calls /\ notifications' = notifications]_vars
    /\ [](\A i \in 1..Len(notifications), j \in 1..Len(notifications) :
             i < j => notifications[i].textDocument.version
                          < notifications[j].textDocument.version)

ArrivalOrderWitness ==
    /\ Settled
    /\ Len(waiters) = 2
    /\ Head(waiters).kind = "editCell"
    /\ waiters[2].kind = "addCell"
    /\ call.op = "addLines"
    /\ calls = 1
    /\ Len(notifications) = 1

(***************************************************************************)
(* The public offset-to-position conversion.                               *)
(***************************************************************************)
\* C21 as claimed: in every reachable document state, for every offset o
\* with 0 <= o <= length(content), positionAt(o) is the same (line,
\* character) as computePosition(o).
PositionAtIsComputePosition ==
    \A o \in 0..Len(document.contents) :
        positionAt(document, o) = computePosition(document, o)

====
